---- MODULE Spec2Model ----
(***************************************************************************)
(* Report submission and analysis polling of Project Trishul's frontend.   *)
(*                                                                         *)
(* pollDisasterAnalysis (services/api.js, kept in                          *)
(* src/notes/spring-2026-meeting-notes.md:99-123) arms a repeating timer   *)
(* with setInterval.  The timer callback is an async function: it runs     *)
(* synchronously up to `await getDisaster(disasterId)`, is suspended       *)
(* there, and is resumed when the response arrives.  setInterval does not  *)
(* wait for the promise the callback returns, so the timer goes on firing  *)
(* while earlier callbacks are suspended.  The model therefore splits the  *)
(* callback at the await:                                                  *)
(*   Tick          the timer fires: attempts++, the request is sent        *)
(*   ServerRespond the backend (or the transport) settles the request      *)
(*   Resume        the continuation after the await runs to its end        *)
(* JavaScript is single-threaded, so each of the three is atomic.          *)
(*                                                                         *)
(* handleSubmit (App.js, kept in src/unnamed/part_002:89-128) is split at  *)
(* its `await reportDisaster(...)` the same way: HandleSubmit sends the    *)
(* create request (or rejects the draft), CreateRespond settles it and     *)
(* SubmitResume runs the rest of the try / catch / finally.  The table of  *)
(* active incidents (activeDisasters) and the resource tables are read-    *)
(* only displays and are left out.                                         *)
(***************************************************************************)
EXTENDS Integers, Sequences, FiniteSets, TLC

\* ------------------------------------------------------------------ bounds
\* The timer of one session fires at most MaxTicks times in the model.
MaxTicks == 3
\* maxAttempts is drawn from 1..MaxMaxAttempts and the default.
MaxMaxAttempts == 2
\* Number of timer handles and of report identifiers the model has room for.
MaxHandles == 2
MaxIds == 2
\* The draft is edited at most MaxEdits times in the model.
MaxEdits == 2
\* Where the model has several sessions, all their timers together fire at
\* most MaxTotalTicks times.
MaxTotalTicks == 2

\* ------------------------------------------------------- program constants
\* `maxAttempts = 20`, the default parameter of pollDisasterAnalysis.
DefaultMaxAttempts == 20

Handles == 1..MaxHandles
Ids == 1..MaxIds

\* DisasterReport.status, in the order the backend advances it.
Status == <<"reported", "analyzing", "analyzed">>
StatusSet == {Status[i] : i \in 1..Len(Status)}

\* What `await getDisaster(id)` settles to: a snapshot (represented by its
\* status) or a rejection (non-2xx answer or transport failure).
Response == StatusSet \cup {"error"}

VARIABLES
    server,       \* server[id]: status of the record, "none" if never created
    disasterId,   \* disasterId[h]: the identifier session h polls (0: none)
    maxAttempts,  \* maxAttempts[h]: the parameter of the session
    attempts,     \* attempts[h]: the closure variable `attempts` of session h
    interval,     \* interval[h]: the timer: "unset", "armed" or "cleared"
    fetch,        \* fetch[h][n]: the await of tick n: "sent", a Response
                  \*   that has arrived, or "resumed"
    log,          \* log[h]: the observable effects of session h, in order
    owner,        \* owner[h]: the create request whose handler started
                  \*   session h and whose callback is its onUpdate (0: none)
    posts,        \* posts[k]: the k-th create request handleSubmit sent
    draft,        \* useState: the New Incident form
    view,         \* useState: the panel shown
    saved,        \* useState: Save Draft was pressed and nothing edited since
    submitting,   \* useState
    submitError,  \* useState
    analysisResult, \* useState: the last snapshot delivered, or Null
    analyzing,    \* useState
    edits         \* number of field edits so far (bounds the model only)

pollVars == <<disasterId, maxAttempts, attempts, interval, fetch, log, owner>>
uiVars == <<posts, draft, view, saved, submitting, submitError,
            analysisResult, analyzing, edits>>
vars == <<server, disasterId, maxAttempts, attempts, interval, fetch, log,
          owner, posts, draft, view, saved, submitting, submitError,
          analysisResult, analyzing, edits>>

\* ------------------------------------------------------------ UI state
\* The values typed into the form's fields.
Fields == {"location", "description", "predicted", "confidence", "keywords"}
FieldValues(f) ==
    CASE f = "location"    -> {"", " ", "123 Main St"}
      [] f = "description" -> {"", "smoke"}
      [] f = "predicted"   -> {"", "flood"}
      [] f = "confidence"  -> {"", "0.9"}
      [] f = "keywords"    -> {"", "gas"}

\* useState({location: "", description: "", predicted: "", ...})
EmptyDraft == [f \in Fields |-> ""]

\* useState(null) of analysisResult; a snapshot is the record's id and status.
Null == [id |-> 0, status |-> "null"]
Snapshot(id, st) == [id |-> id, status |-> st]

\* The two messages handleSubmit puts into submitError.
MissingLocation == "Please enter a location."
SubmissionFailed == "Failed to report incident. Is the backend running?"

\* The state of the component after its first render.
AppInit ==
    /\ posts = <<>>
    /\ draft = EmptyDraft
    /\ view = "country"
    /\ saved = FALSE
    /\ submitting = FALSE
    /\ submitError = ""
    /\ analysisResult = Null
    /\ analyzing = FALSE
    /\ edits = 0

\* ------------------------------------------------------------ the log
\* One entry per effect: the request of a tick, an onUpdate call, a
\* console.error call, a clearInterval call of the caller on the handle.
Event(e, n, d) == [ev |-> e, tick |-> n, data |-> d]

Positions(h) == 1..Len(log[h])
At(h, e) == {p \in Positions(h) : log[h][p].ev = e}
NumUpdates(h) == Cardinality(At(h, "onUpdate"))

\* The awaits of session h that have not resolved into their continuation.
InFlight(h) == {n \in 1..Len(fetch[h]) : fetch[h][n] # "resumed"}

\* ------------------------------------------------------------ operations
\* clearInterval as it would be if releasing a released timer armed it again.
clearIntervalToggle(iv) ==
    CASE iv = "unset" -> "unset"
      [] iv = "armed" -> "cleared"
      [] iv = "cleared" -> "armed"

\* clearInterval(handle): the timer, once created, is released for good.
clearInterval(iv) == IF iv = "unset" THEN "unset" ELSE "cleared"

\* The state pollDisasterAnalysis(id, onUpdate, m) leaves behind:
\* `let attempts = 0`, the interval armed, nothing sent yet.
pollDisasterAnalysis(h, id, m) ==
    /\ disasterId = [g \in Handles |-> IF g = h THEN id ELSE 0]
    /\ maxAttempts = [g \in Handles |-> IF g = h THEN m ELSE 0]
    /\ attempts = [g \in Handles |-> 0]
    /\ interval = [g \in Handles |-> IF g = h THEN "armed" ELSE "unset"]
    /\ fetch = [g \in Handles |-> <<>>]
    /\ log = [g \in Handles |-> <<>>]
    /\ owner = [g \in Handles |-> 0]

\* One session, polling a record that exists on the server.
Init ==
    /\ \E s \in StatusSet :
          server = [i \in Ids |-> IF i = 1 THEN s ELSE "none"]
    /\ \E m \in (1..MaxMaxAttempts) \cup {DefaultMaxAttempts} :
          pollDisasterAnalysis(1, 1, m)
    /\ AppInit

\* Tick as it would be if releasing the timer did not keep it from firing.
TickAfterClear(h) ==
    /\ interval[h] \in {"armed", "cleared"}
    /\ attempts[h] < MaxTicks
    /\ attempts' = [attempts EXCEPT ![h] = @ + 1]
    /\ fetch' = [fetch EXCEPT ![h] = Append(@, "sent")]
    /\ log' = [log EXCEPT ![h] = Append(@, Event("getDisaster", attempts[h] + 1, "-"))]
    /\ UNCHANGED <<server, disasterId, maxAttempts, interval, owner>>
    /\ UNCHANGED uiVars

\* The timer fires: the callback runs up to the await.
Tick(h) ==
    /\ interval[h] = "armed"
    /\ attempts[h] < MaxTicks
    /\ attempts' = [attempts EXCEPT ![h] = @ + 1]
    /\ fetch' = [fetch EXCEPT ![h] = Append(@, "sent")]
    /\ log' = [log EXCEPT ![h] = Append(@, Event("getDisaster", attempts[h] + 1, "-"))]
    /\ UNCHANGED <<server, disasterId, maxAttempts, interval, owner>>
    /\ UNCHANGED uiVars

\* GET /disasters/{id}/ is answered with the record as it is now, or fails.
getDisaster(id) == {server[id]} \cup {"error"}

ServerRespond(h, n) ==
    /\ n \in 1..Len(fetch[h])
    /\ fetch[h][n] = "sent"
    /\ \E r \in getDisaster(disasterId[h]) :
          fetch' = [fetch EXCEPT ![h][n] = r]
    /\ UNCHANGED <<server, disasterId, maxAttempts, attempts, interval, log, owner>>
    /\ UNCHANGED uiVars

\* `disaster.status === 'analyzed' || attempts >= maxAttempts`
StopCondition(status, att, m) == status = "analyzed" \/ att >= m

\* What the callback bound to session h does with a snapshot.  The callback
\* handleSubmit passes stores it and clears `analyzing` on "analyzed"; the
\* sink of a session started by another caller keeps no state of its own.
onUpdate(h, disaster) ==
    IF owner[h] = 0
    THEN UNCHANGED <<analysisResult, analyzing>>
    ELSE /\ analysisResult' = disaster
         /\ analyzing' = IF disaster.status = "analyzed" THEN FALSE ELSE analyzing

\* The statuses session h has delivered to onUpdate so far, in order.
Delivered(h) ==
    [i \in 1..NumUpdates(h) |->
        log[h][CHOOSE p \in At(h, "onUpdate") :
                  Cardinality({q \in At(h, "onUpdate") : q <= p}) = i].data]

\* Resume as it would be if a snapshot whose status equals the one delivered
\* last were held back instead of being passed to onUpdate.
ResumeDedup(h, n) ==
    /\ n \in 1..Len(fetch[h])
    /\ fetch[h][n] \in Response
    /\ fetch' = [fetch EXCEPT ![h][n] = "resumed"]
    /\ IF fetch[h][n] = "error"
       THEN /\ log' = [log EXCEPT ![h] = Append(@, Event("error", n, "-"))]
            /\ interval' = [interval EXCEPT ![h] = clearInterval(@)]
            /\ UNCHANGED <<analysisResult, analyzing>>
       ELSE /\ log' = [log EXCEPT ![h] =
                  IF NumUpdates(h) > 0 /\ Delivered(h)[NumUpdates(h)] = fetch[h][n]
                  THEN @ ELSE Append(@, Event("onUpdate", n, fetch[h][n]))]
            /\ IF NumUpdates(h) > 0 /\ Delivered(h)[NumUpdates(h)] = fetch[h][n]
               THEN UNCHANGED <<analysisResult, analyzing>>
               ELSE onUpdate(h, Snapshot(disasterId[h], fetch[h][n]))
            /\ interval' = [interval EXCEPT ![h] =
                  IF StopCondition(fetch[h][n], attempts[h], maxAttempts[h])
                  THEN clearInterval(@) ELSE @]
    /\ UNCHANGED <<server, disasterId, maxAttempts, attempts, owner>>
    /\ UNCHANGED <<posts, draft, view, saved, submitting, submitError, edits>>

\* Resume as it would be if the catch handler also dropped the stored
\* snapshot.
ResumeForgetsOnError(h, n) ==
    /\ n \in 1..Len(fetch[h])
    /\ fetch[h][n] \in Response
    /\ fetch' = [fetch EXCEPT ![h][n] = "resumed"]
    /\ IF fetch[h][n] = "error"
       THEN /\ log' = [log EXCEPT ![h] = Append(@, Event("error", n, "-"))]
            /\ interval' = [interval EXCEPT ![h] = clearInterval(@)]
            /\ analysisResult' = Null
            /\ UNCHANGED analyzing
       ELSE /\ log' = [log EXCEPT ![h] = Append(@, Event("onUpdate", n, fetch[h][n]))]
            /\ onUpdate(h, Snapshot(disasterId[h], fetch[h][n]))
            /\ interval' = [interval EXCEPT ![h] =
                  IF StopCondition(fetch[h][n], attempts[h], maxAttempts[h])
                  THEN clearInterval(@) ELSE @]
    /\ UNCHANGED <<server, disasterId, maxAttempts, attempts, owner>>
    /\ UNCHANGED <<posts, draft, view, saved, submitting, submitError, edits>>

\* Resume as it would be if all sessions shared one timer handle.
ResumeSharedTimer(h, n) ==
    /\ n \in 1..Len(fetch[h])
    /\ fetch[h][n] \in Response
    /\ fetch' = [fetch EXCEPT ![h][n] = "resumed"]
    /\ IF fetch[h][n] = "error"
       THEN /\ log' = [log EXCEPT ![h] = Append(@, Event("error", n, "-"))]
            /\ interval' = [g \in Handles |-> clearInterval(interval[g])]
            /\ UNCHANGED <<analysisResult, analyzing>>
       ELSE /\ log' = [log EXCEPT ![h] = Append(@, Event("onUpdate", n, fetch[h][n]))]
            /\ onUpdate(h, Snapshot(disasterId[h], fetch[h][n]))
            /\ interval' =
                  IF StopCondition(fetch[h][n], attempts[h], maxAttempts[h])
                  THEN [g \in Handles |-> clearInterval(interval[g])]
                  ELSE interval
    /\ UNCHANGED <<server, disasterId, maxAttempts, attempts, owner>>
    /\ UNCHANGED <<posts, draft, view, saved, submitting, submitError, edits>>

\* The continuation after the await: the try body or the catch handler.
Resume(h, n) ==
    /\ n \in 1..Len(fetch[h])
    /\ fetch[h][n] \in Response
    /\ fetch' = [fetch EXCEPT ![h][n] = "resumed"]
    /\ IF fetch[h][n] = "error"
       THEN /\ log' = [log EXCEPT ![h] = Append(@, Event("error", n, "-"))]
            /\ interval' = [interval EXCEPT ![h] = clearInterval(@)]
            /\ UNCHANGED <<analysisResult, analyzing>>
       ELSE /\ log' = [log EXCEPT ![h] = Append(@, Event("onUpdate", n, fetch[h][n]))]
            /\ onUpdate(h, Snapshot(disasterId[h], fetch[h][n]))
            /\ interval' = [interval EXCEPT ![h] =
                  IF StopCondition(fetch[h][n], attempts[h], maxAttempts[h])
                  THEN clearInterval(@) ELSE @]
    /\ UNCHANGED <<server, disasterId, maxAttempts, attempts, owner>>
    /\ UNCHANGED <<posts, draft, view, saved, submitting, submitError, edits>>

\* The caller stops the session: clearInterval on the returned handle.
CallerStopped(h) == At(h, "stop") # {}

Stop(h) ==
    /\ interval[h] # "unset"
    /\ ~CallerStopped(h)
    /\ interval' = [interval EXCEPT ![h] = clearInterval(@)]
    /\ log' = [log EXCEPT ![h] = Append(@, Event("stop", attempts[h], interval[h]))]
    /\ UNCHANGED <<server, disasterId, maxAttempts, attempts, fetch, owner>>
    /\ UNCHANGED uiVars

\* The classification pipeline advances the record, out of band.
NextStatus(s) ==
    IF s = Status[1] THEN Status[2] ELSE Status[3]

ServerAdvance(id) ==
    /\ server[id] \in StatusSet
    /\ server[id] # "analyzed"
    /\ server' = [server EXCEPT ![id] = NextStatus(@)]
    /\ UNCHANGED pollVars
    /\ UNCHANGED uiVars

Next ==
    \/ \E h \in Handles : Tick(h)
    \/ \E h \in Handles : \E n \in 1..MaxTicks : ServerRespond(h, n)
    \/ \E h \in Handles : \E n \in 1..MaxTicks : Resume(h, n)
    \/ \E h \in Handles : Stop(h)
    \/ \E id \in Ids : ServerAdvance(id)

Spec == Init /\ [][Next]_vars

\* ------------------------------------------------------------ the form
\* JavaScript's `!s` and `a || b` on strings: only the empty string is falsy.
Falsy(str) == str = ""
Or(a, b) == IF Falsy(a) THEN b ELSE a

\* resetDraft(): every field empty again, and the message with them.
resetDraft ==
    /\ draft' = EmptyDraft
    /\ submitError' = ""

\* updateDraft(field, value), the onChange handler of the form's inputs.
updateDraft(f, v) ==
    /\ view = "new"
    /\ edits < MaxEdits
    /\ v # draft[f]
    /\ draft' = [draft EXCEPT ![f] = v]
    /\ saved' = FALSE
    /\ edits' = edits + 1
    /\ UNCHANGED <<posts, view, submitting, submitError, analysisResult, analyzing>>
    /\ UNCHANGED <<server, pollVars>>

\* The Save Draft button.
SaveDraft ==
    /\ view = "new"
    /\ saved' = TRUE
    /\ UNCHANGED <<posts, draft, view, submitting, submitError, analysisResult,
                   analyzing, edits>>
    /\ UNCHANGED <<server, pollVars>>

\* Close as it would be without `setSaved(false)`.
CloseKeepsSaved ==
    /\ view = "new"
    /\ IF ~saved THEN resetDraft ELSE UNCHANGED <<draft, submitError>>
    /\ view' = "country"
    /\ UNCHANGED <<posts, saved, submitting, analysisResult, analyzing, edits>>
    /\ UNCHANGED <<server, pollVars>>

\* The Close button of the form.
Close ==
    /\ view = "new"
    /\ IF ~saved THEN resetDraft ELSE UNCHANGED <<draft, submitError>>
    /\ saved' = FALSE
    /\ view' = "country"
    /\ UNCHANGED <<posts, submitting, analysisResult, analyzing, edits>>
    /\ UNCHANGED <<server, pollVars>>

\* The menu buttons (always shown), the map click and the two buttons of the
\* analysis panel: each only switches the panel.
Views == {"country", "incidents", "resources", "analytics", "new", "analysis"}
setView(v) ==
    /\ v \in Views \ {"analysis"}
    /\ v # view
    /\ view' = v
    /\ UNCHANGED <<posts, draft, saved, submitting, submitError, analysisResult,
                   analyzing, edits>>
    /\ UNCHANGED <<server, pollVars>>

\* ------------------------------------------------------------ handleSubmit
\* `!draft.location`
LocationMissing(d) == Falsy(d["location"])

\* CreateRequest as it would be without the "fire" default.
CreateRequestNoDefault(d) ==
    [disaster_type |-> d["predicted"],
     address |-> d["location"],
     description |-> d["description"]]

\* The body handleSubmit passes to reportDisaster.
CreateRequest(d) ==
    [disaster_type |-> Or(d["predicted"], "fire"),
     address |-> d["location"],
     description |-> d["description"]]

\* reportDisaster(data): the POST is on its way.
reportDisaster(data) ==
    posts' = Append(posts, [data |-> data, st |-> "sent", id |-> 0])

\* The model has room for one session and one record per create request.
RoomForSubmit == Len(posts) < MaxHandles /\ Len(posts) < MaxIds

\* HandleSubmit as it would be without `setSubmitError("")` before the
\* request.
HandleSubmitKeepsError ==
    /\ view = "new"
    /\ ~submitting
    /\ IF LocationMissing(draft)
       THEN /\ submitError' = MissingLocation
            /\ UNCHANGED <<posts, submitting, analysisResult>>
       ELSE /\ RoomForSubmit
            /\ submitting' = TRUE
            /\ UNCHANGED submitError
            /\ analysisResult' = Null
            /\ reportDisaster(CreateRequest(draft))
    /\ UNCHANGED <<draft, view, saved, analyzing, edits>>
    /\ UNCHANGED <<server, pollVars>>

\* HandleSubmit as it would be without `setAnalysisResult(null)` before the
\* request.
HandleSubmitKeepsResult ==
    /\ view = "new"
    /\ ~submitting
    /\ IF LocationMissing(draft)
       THEN /\ submitError' = MissingLocation
            /\ UNCHANGED <<posts, submitting, analysisResult>>
       ELSE /\ RoomForSubmit
            /\ submitting' = TRUE
            /\ submitError' = ""
            /\ UNCHANGED analysisResult
            /\ reportDisaster(CreateRequest(draft))
    /\ UNCHANGED <<draft, view, saved, analyzing, edits>>
    /\ UNCHANGED <<server, pollVars>>

\* HandleSubmit as it would be if the stored snapshot were dropped before
\* the location is looked at.
HandleSubmitRejectClears ==
    /\ view = "new"
    /\ ~submitting
    /\ IF LocationMissing(draft)
       THEN /\ submitError' = MissingLocation
            /\ analysisResult' = Null
            /\ UNCHANGED <<posts, submitting>>
       ELSE /\ RoomForSubmit
            /\ submitting' = TRUE
            /\ submitError' = ""
            /\ analysisResult' = Null
            /\ reportDisaster(CreateRequest(draft))
    /\ UNCHANGED <<draft, view, saved, analyzing, edits>>
    /\ UNCHANGED <<server, pollVars>>

\* The Submit button, up to the await (or to the early return).
HandleSubmit ==
    /\ view = "new"
    /\ ~submitting
    /\ IF LocationMissing(draft)
       THEN /\ submitError' = MissingLocation
            /\ UNCHANGED <<posts, submitting, analysisResult>>
       ELSE /\ RoomForSubmit
            /\ submitting' = TRUE
            /\ submitError' = ""
            /\ analysisResult' = Null
            /\ reportDisaster(CreateRequest(draft))
    /\ UNCHANGED <<draft, view, saved, analyzing, edits>>
    /\ UNCHANGED <<server, pollVars>>

\* The identifier the backend gives the next record.
NextId == CHOOSE i \in Ids : server[i] = "none" /\ \A j \in 1..(i - 1) : server[j] # "none"

\* POST /disasters/ is answered 201 {disaster_id} with the record created, or
\* fails (non-2xx answer or transport failure) with nothing created.
CreateRespond(k) ==
    /\ k \in 1..Len(posts)
    /\ posts[k].st = "sent"
    /\ \/ /\ posts' = [posts EXCEPT ![k].st = "ok", ![k].id = NextId]
          /\ server' = [server EXCEPT ![NextId] = Status[1]]
       \/ /\ posts' = [posts EXCEPT ![k].st = "error"]
          /\ UNCHANGED server
    /\ UNCHANGED <<draft, view, saved, submitting, submitError, analysisResult,
                   analyzing, edits>>
    /\ UNCHANGED pollVars

\* The timer handle setInterval returns next.
NextHandle == CHOOSE h \in Handles :
                 interval[h] = "unset" /\ \A g \in 1..(h - 1) : interval[g] # "unset"

\* StartPolling as it would be if the session were bound to the identifier
\* of the first report instead of the one just returned.
StartPollingStaleId(h, id, m, k) ==
    /\ disasterId' = [disasterId EXCEPT ![h] = posts[1].id]
    /\ maxAttempts' = [maxAttempts EXCEPT ![h] = m]
    /\ attempts' = [attempts EXCEPT ![h] = 0]
    /\ interval' = [interval EXCEPT ![h] = "armed"]
    /\ fetch' = [fetch EXCEPT ![h] = <<>>]
    /\ log' = [log EXCEPT ![h] = <<>>]
    /\ owner' = [owner EXCEPT ![h] = k]

\* pollDisasterAnalysis(id, onUpdate, m) called by the handler of create
\* request k while other sessions exist: a new closure and a new timer.
StartPolling(h, id, m, k) ==
    /\ disasterId' = [disasterId EXCEPT ![h] = id]
    /\ maxAttempts' = [maxAttempts EXCEPT ![h] = m]
    /\ attempts' = [attempts EXCEPT ![h] = 0]
    /\ interval' = [interval EXCEPT ![h] = "armed"]
    /\ fetch' = [fetch EXCEPT ![h] = <<>>]
    /\ log' = [log EXCEPT ![h] = <<>>]
    /\ owner' = [owner EXCEPT ![h] = k]

\* SubmitResume as it would be if the catch handler sent the request again.
SubmitResumeRetry(k) ==
    /\ k \in 1..Len(posts)
    /\ posts[k].st \in {"ok", "error"}
    /\ IF posts[k].st = "ok"
       THEN /\ posts' = [posts EXCEPT ![k].st = "started"]
            /\ analyzing' = TRUE
            /\ resetDraft
            /\ view' = "analysis"
            /\ submitting' = FALSE
            /\ StartPolling(NextHandle, posts[k].id, DefaultMaxAttempts, k)
       ELSE /\ RoomForSubmit
            /\ posts' = Append([posts EXCEPT ![k].st = "failed"],
                               [data |-> posts[k].data, st |-> "sent", id |-> 0])
            /\ submitError' = SubmissionFailed
            /\ UNCHANGED <<analyzing, draft, view, submitting>>
            /\ UNCHANGED pollVars
    /\ UNCHANGED <<saved, analysisResult, edits, server>>

\* SubmitResume as it would be if setSubmitting(false) stood at the end of
\* the try body instead of in a finally block.
SubmitResumeNoFinally(k) ==
    /\ k \in 1..Len(posts)
    /\ posts[k].st \in {"ok", "error"}
    /\ posts' = [posts EXCEPT ![k].st = IF @ = "ok" THEN "started" ELSE "failed"]
    /\ IF posts[k].st = "ok"
       THEN /\ analyzing' = TRUE
            /\ resetDraft
            /\ view' = "analysis"
            /\ StartPolling(NextHandle, posts[k].id, DefaultMaxAttempts, k)
            /\ submitting' = FALSE
       ELSE /\ submitError' = SubmissionFailed
            /\ UNCHANGED <<analyzing, draft, view, submitting>>
            /\ UNCHANGED pollVars
    /\ UNCHANGED <<saved, analysisResult, edits, server>>

\* handleSubmit after the await: the rest of the try body, or the catch
\* handler, and the finally block.
SubmitResume(k) ==
    /\ k \in 1..Len(posts)
    /\ posts[k].st \in {"ok", "error"}
    /\ posts' = [posts EXCEPT ![k].st = IF @ = "ok" THEN "started" ELSE "failed"]
    /\ IF posts[k].st = "ok"
       THEN /\ analyzing' = TRUE
            /\ resetDraft
            /\ view' = "analysis"
            /\ StartPolling(NextHandle, posts[k].id, DefaultMaxAttempts, k)
       ELSE /\ submitError' = SubmissionFailed
            /\ UNCHANGED <<analyzing, draft, view>>
            /\ UNCHANGED pollVars
    /\ submitting' = FALSE
    /\ UNCHANGED <<saved, analysisResult, edits, server>>

\* The timers of all sessions together fire at most MaxTotalTicks times.
RECURSIVE SumAttempts(_)
SumAttempts(H) ==
    IF H = {} THEN 0
    ELSE LET h == CHOOSE x \in H : TRUE IN attempts[h] + SumAttempts(H \ {h})
TotalAttempts == SumAttempts(Handles)
TickUI(h) == TotalAttempts < MaxTotalTicks /\ Tick(h)

InitUI ==
    /\ server = [i \in Ids |-> "none"]
    /\ disasterId = [g \in Handles |-> 0]
    /\ maxAttempts = [g \in Handles |-> 0]
    /\ attempts = [g \in Handles |-> 0]
    /\ interval = [g \in Handles |-> "unset"]
    /\ fetch = [g \in Handles |-> <<>>]
    /\ log = [g \in Handles |-> <<>>]
    /\ owner = [g \in Handles |-> 0]
    /\ AppInit

NextUI ==
    \/ \E f \in Fields : \E v \in FieldValues(f) : updateDraft(f, v)
    \/ SaveDraft
    \/ Close
    \/ \E v \in Views : setView(v)
    \/ HandleSubmit
    \/ \E k \in 1..MaxHandles : CreateRespond(k)
    \/ \E k \in 1..MaxHandles : SubmitResume(k)
    \/ \E h \in Handles : TickUI(h)
    \/ \E h \in Handles : \E n \in 1..MaxTicks : ServerRespond(h, n)
    \/ \E h \in Handles : \E n \in 1..MaxTicks : Resume(h, n)
    \/ \E id \in Ids : ServerAdvance(id)

SpecUI == InitUI /\ [][NextUI]_vars

\* Two sessions started by one caller for the same record with the same
\* arguments; their timers together fire at most MaxTotalTicks times.
InitPair ==
    /\ \E st \in StatusSet :
          server = [i \in Ids |-> IF i = 1 THEN st ELSE "none"]
    /\ \E m \in (1..MaxMaxAttempts) \cup {DefaultMaxAttempts} :
          /\ disasterId = [g \in Handles |-> IF g <= 2 THEN 1 ELSE 0]
          /\ maxAttempts = [g \in Handles |-> IF g <= 2 THEN m ELSE 0]
    /\ attempts = [g \in Handles |-> 0]
    /\ interval = [g \in Handles |-> IF g <= 2 THEN "armed" ELSE "unset"]
    /\ fetch = [g \in Handles |-> <<>>]
    /\ log = [g \in Handles |-> <<>>]
    /\ owner = [g \in Handles |-> 0]
    /\ AppInit

TickPair(h) == TotalAttempts < MaxTotalTicks /\ Tick(h)

NextPair ==
    \/ \E h \in Handles : TickPair(h)
    \/ \E h \in Handles : \E n \in 1..MaxTicks : ServerRespond(h, n)
    \/ \E h \in Handles : \E n \in 1..MaxTicks : Resume(h, n)
    \/ \E h \in Handles : Stop(h)
    \/ \E id \in Ids : ServerAdvance(id)

SpecPair == InitPair /\ [][NextPair]_vars

\* The submit workflow on its own: the form, handleSubmit and the create
\* request, up to the start of the poll session.  The timers of the sessions
\* it starts do not fire here; no step of the poller reads or writes posts,
\* draft, view, saved, submitting or submitError.
NextSubmit ==
    \/ \E f \in Fields : \E v \in FieldValues(f) : updateDraft(f, v)
    \/ SaveDraft
    \/ Close
    \/ \E v \in Views : setView(v)
    \/ HandleSubmit
    \/ \E k \in 1..MaxHandles : CreateRespond(k)
    \/ \E k \in 1..MaxHandles : SubmitResume(k)

SpecSubmit == InitUI /\ [][NextSubmit]_vars

TypeOK ==
    /\ server \in [Ids -> StatusSet \cup {"none"}]
    /\ attempts \in [Handles -> 0..MaxTicks]
    /\ interval \in [Handles -> {"unset", "armed", "cleared"}]
    /\ \A h \in Handles : Len(fetch[h]) = attempts[h]

\* ------------------------------------------------------------------ claims
Started(h) == interval[h] # "unset"
\* The events of session h that come after position p of its log.
After(h, p) == {q \in Positions(h) : q > p}
\* Positions at which an effect of a tick shows: a request or a delivery.
TickEffects(h) == At(h, "getDisaster") \cup At(h, "onUpdate")
\* The session is over: the timer is released and no await is outstanding.
Ended(h) == interval[h] = "cleared" /\ InFlight(h) = {}

\* C1: onUpdate is invoked at most maxAttempts times over the life of a
\* session, for every interleaving of timer ticks and responses.
C1_AtMostMaxAttemptsUpdates ==
    \A h \in Handles : Started(h) => NumUpdates(h) <= maxAttempts[h]

\* C2: after the caller has stopped a session, onUpdate is never invoked
\* again for it, also when a fetch was in flight at the moment of the stop.
C2_NoUpdateAfterStop ==
    \A h \in Handles : \A p \in At(h, "stop") :
        After(h, p) \cap At(h, "onUpdate") = {}

\* C3: ticks of one session never overlap: at most one fetch of the session
\* is in flight at any moment.
C3_AtMostOneFetchInFlight ==
    \A h \in Handles : Cardinality(InFlight(h)) <= 1

\* C4: snapshots are delivered to onUpdate in strict tick order.
C4_UpdatesInTickOrder ==
    \A h \in Handles : \A p, q \in At(h, "onUpdate") :
        p < q => log[h][p].tick < log[h][q].tick

\* C5: once a snapshot with status "analyzed" has been delivered, no further
\* fetch is issued and no further onUpdate is invoked.
C5_NothingAfterAnalyzed ==
    \A h \in Handles : \A p \in At(h, "onUpdate") :
        log[h][p].data = "analyzed" => After(h, p) \cap TickEffects(h) = {}

\* C6: once the caller has stopped the session after tick N, tick N+1 never
\* fires: no request follows the stop, and the attempt counter stays at N.
C6_NoTickAfterStop ==
    \A h \in Handles : \A p \in At(h, "stop") :
        /\ After(h, p) \cap At(h, "getDisaster") = {}
        /\ attempts[h] = log[h][p].tick
        /\ interval[h] = "cleared"

\* C6 witness: tick 1 delivered its snapshot and left the timer armed with
\* tick 2 still due; then the caller stopped the session, which is over.
C6_Witness ==
    \E p \in At(1, "stop") :
        /\ log[1][p].data = "armed"
        /\ log[1][p].tick = 1
        /\ maxAttempts[1] > 1
        /\ \E q \in At(1, "onUpdate") : q < p /\ log[1][q].tick = 1
        /\ Ended(1)

\* C7: a fetch failure at tick K < maxAttempts halts the session for good:
\* once it is observed the timer is released, no later tick occurs and
\* onUpdate is never invoked again.
C7_FailureHaltsSession ==
    \A h \in Handles : \A p \in At(h, "error") :
        log[h][p].tick < maxAttempts[h] =>
            /\ interval[h] = "cleared"
            /\ After(h, p) \cap TickEffects(h) = {}

\* C8: if the fetch of tick 1 fails, onUpdate is never invoked for the
\* session and no later tick occurs; onUpdate only ever receives the
\* snapshot of a successful fetch.
C8_FirstFailureMeansNoUpdate ==
    \A h \in Handles :
        /\ (\E p \in At(h, "error") : log[h][p].tick = 1) =>
              /\ At(h, "onUpdate") = {}
              /\ attempts[h] = 1
        /\ \A q \in At(h, "onUpdate") : log[h][q].data \in StatusSet

\* C9: the attempt counter of a session always lies in 0..maxAttempts.
C9_AttemptsWithinMax ==
    \A h \in Handles : Started(h) => attempts[h] \in 0..maxAttempts[h]

\* C10: a session whose fetches all succeeded, that never saw "analyzed" and
\* was not stopped by its caller, has delivered exactly maxAttempts
\* snapshots when it has ended.
C10_ExhaustionDeliversExactlyMax ==
    \A h \in Handles :
        ( /\ Ended(h)
          /\ ~CallerStopped(h)
          /\ At(h, "error") = {}
          /\ \A p \in At(h, "onUpdate") : log[h][p].data # "analyzed" )
        => NumUpdates(h) = maxAttempts[h]

\* Position of a status in the order the backend advances it.
Rank(st) == CHOOSE i \in 1..Len(Status) : Status[i] = st
\* The onUpdate calls and the console.error calls made for tick n.
UpdatesOf(h, n) == {p \in At(h, "onUpdate") : log[h][p].tick = n}
ErrorsOf(h, n) == {p \in At(h, "error") : log[h][p].tick = n}

\* C11: when all fetches succeeded and the first analyzed snapshot came on
\* tick K <= maxAttempts, a session that has ended has invoked onUpdate
\* exactly K times and the last snapshot it delivered is the analyzed one.
C11_AnalyzedIsKthAndLast ==
    \A h \in Handles :
        ( /\ Ended(h)
          /\ ~CallerStopped(h)
          /\ At(h, "error") = {}
          /\ \E p \in At(h, "onUpdate") : log[h][p].data = "analyzed" )
        => LET K == CHOOSE k \in 1..attempts[h] :
                      /\ \E p \in UpdatesOf(h, k) : log[h][p].data = "analyzed"
                      /\ \A j \in 1..(k - 1) : \A p \in UpdatesOf(h, j) :
                            log[h][p].data # "analyzed"
           IN  K <= maxAttempts[h] =>
                  /\ NumUpdates(h) = K
                  /\ Delivered(h)[NumUpdates(h)] = "analyzed"

\* C12: every successful fetch results in exactly one onUpdate call carrying
\* its snapshot, whatever was delivered before; a failed or pending fetch
\* results in none.
C12_OneUpdatePerSuccessfulFetch ==
    /\ [](\A h \in Handles : \A n \in 1..Len(fetch[h]) :
            Cardinality(UpdatesOf(h, n)) =
               IF fetch[h][n] = "resumed" /\ ErrorsOf(h, n) = {} THEN 1 ELSE 0)
    /\ [][\A h \in Handles : \A n \in 1..Len(fetch[h]) :
            (fetch[h][n] \in StatusSet /\ fetch'[h][n] = "resumed") =>
               log'[h] = Append(log[h], Event("onUpdate", n, fetch[h][n]))]_vars

\* C12 witness: two successive ticks delivered snapshots with the same status.
C12_Witness ==
    /\ NumUpdates(1) >= 2
    /\ Delivered(1)[1] = Delivered(1)[2]
    /\ UpdatesOf(1, 1) # {} /\ UpdatesOf(1, 2) # {}

\* C19: the statuses a session delivers to onUpdate never regress from a
\* later status to an earlier one (the server's record only advances).
C19_DeliveredStatusMonotonic ==
    \A h \in Handles : \A i, j \in 1..NumUpdates(h) :
        i < j => Rank(Delivered(h)[i]) <= Rank(Delivered(h)[j])

\* trim() of the values the model types into the location field is empty.
IsBlank(str) == str \in {"", " "}
\* The create requests whose handler has taken the given path.
PostsIn(st) == {k \in 1..Len(posts) : posts[k].st = st}
\* The sessions the handler of create request k has started.
SessionsOf(k) == {h \in Handles : Started(h) /\ owner[h] = k}

\* C13: no create request is ever issued for a draft whose location is empty
\* or blank (whitespace only): such a submit ends in the validation message.
C13_NoRequestForBlankLocation ==
    \A k \in 1..Len(posts) : ~IsBlank(posts[k].data.address)

\* C14: the create request carries disaster_type (the predicted type, or
\* "fire" when that is empty), address (the location) and description of the
\* draft as it is when Submit is pressed, and no other field.
C14_CreateRequestFields ==
    [][Len(posts') = Len(posts) + 1 =>
          LET data == posts'[Len(posts')].data IN
          /\ DOMAIN data = {"disaster_type", "address", "description"}
          /\ data.disaster_type =
                (IF draft["predicted"] = "" THEN "fire" ELSE draft["predicted"])
          /\ data.address = draft["location"]
          /\ data.description = draft["description"]
          /\ posts'[Len(posts')].st = "sent"]_vars

\* C14 witness: a request went out with the default type, another with the
\* type the user predicted.
C14_Witness ==
    /\ \E k \in 1..Len(posts) : posts[k].data.disaster_type = "fire"
    /\ \E k \in 1..Len(posts) : posts[k].data.disaster_type = "flood"

\* C15: when the create request fails, the handler reports the submission
\* failure, sends no further request and starts no poll session.
C15_FailedCreateNoRetryNoSession ==
    /\ [](\A k \in PostsIn("failed") : SessionsOf(k) = {})
    /\ [][\A k \in 1..Len(posts) :
            (posts[k].st = "error" /\ posts'[k].st # "error") =>
               /\ posts'[k].st = "failed"
               /\ submitError' = SubmissionFailed
               /\ Len(posts') = Len(posts)
               /\ interval' = interval
               /\ owner' = owner]_vars

\* C15 witness: the only create request failed and its handler has finished.
C15_Witness ==
    /\ Len(posts) = 1
    /\ posts[1].st = "failed"
    /\ ~submitting
    /\ submitError = SubmissionFailed
    /\ \A h \in Handles : ~Started(h)

\* C16: a poll session exists only for a create request that succeeded and
\* whose handler has resumed, it polls the identifier that response carried,
\* and every such request has exactly one session.
C16_SessionPerSuccessfulCreate ==
    /\ \A h \in Handles : Started(h) =>
          /\ owner[h] \in PostsIn("started")
          /\ disasterId[h] = posts[owner[h]].id
          /\ server[disasterId[h]] # "none"
    /\ \A k \in 1..Len(posts) :
          Cardinality(SessionsOf(k)) = IF posts[k].st = "started" THEN 1 ELSE 0

\* C16 witness: two submits succeeded and each has its session, while the
\* response of no request is outstanding.
C16_Witness ==
    /\ Len(posts) = 2
    /\ PostsIn("started") = {1, 2}
    /\ \A h \in {1, 2} : Started(h)
    /\ disasterId[1] # disasterId[2]

\* C17: a fetch failure in a session changes neither the stored snapshot nor
\* the analyzing flag nor submitError.
C17_FetchFailureLeavesUI ==
    [][\A h \in Handles : \A n \in 1..Len(fetch[h]) :
          (fetch[h][n] = "error" /\ fetch'[h][n] = "resumed") =>
             /\ analysisResult' = analysisResult
             /\ analyzing' = analyzing
             /\ submitError' = submitError]_vars

\* C17 witness: a session of the application delivered a snapshot, then one
\* of its fetches failed, and the snapshot is still shown.
C17_Witness ==
    \E h \in Handles :
        /\ owner[h] > 0
        /\ \E p \in At(h, "onUpdate") : \E q \in At(h, "error") : p < q
        /\ analysisResult # Null

\* C18: a step of one session (tick, response, delivery, failure, stop)
\* leaves the counter, the timer, the awaits and the effects of every other
\* session as they are, also when both poll the same record.
C18_SessionsIndependent ==
    [][\A h, g \in Handles :
          (h # g /\ (fetch'[h] # fetch[h] \/ log'[h] # log[h]
                       \/ interval'[h] # interval[h])) =>
             /\ attempts'[g] = attempts[g]
             /\ interval'[g] = interval[g]
             /\ fetch'[g] = fetch[g]
             /\ log'[g] = log[g]]_vars

\* C18 witness: two sessions on the same record have both delivered, one has
\* released its timer and the other is still armed.
C18_Witness ==
    /\ disasterId[1] = disasterId[2]
    /\ NumUpdates(1) > 0 /\ NumUpdates(2) > 0
    /\ interval[1] = "cleared" /\ interval[2] = "armed"

\* C20: a submit rejected for its location and a submit whose create request
\* failed leave a message in submitError; a submit that passes validation
\* clears it as the request goes out, and it is empty after a successful one.
C20_SubmitErrorShown ==
    /\ [][(HandleSubmit /\ draft["location"] = "") => submitError' # ""]_vars
    /\ [][Len(posts') = Len(posts) + 1 => submitError' = ""]_vars
    /\ [][\A k \in 1..Len(posts) :
            /\ (posts[k].st = "error" /\ posts'[k].st # "error") => submitError' # ""
            /\ (posts[k].st = "ok" /\ posts'[k].st # "ok") => submitError' = ""]_vars

\* C20 witness: a first submit failed and left its message, the user pressed
\* Submit again, and the second create request succeeded.
C20_Witness ==
    /\ Len(posts) = 2
    /\ posts[1].st = "failed"
    /\ posts[2].st = "started"
    /\ submitError = ""

\* The session's timer is armed: it is still polling.
Active(h) == interval[h] = "armed"

\* C21: the application never has two active poll sessions on the same
\* report identifier, the backend giving every create request its own
\* identifier, also when a new report is submitted while an earlier session
\* is still polling.
C21_NoTwoActiveSessionsShareId ==
    \A h, g \in Handles :
        (h # g /\ Active(h) /\ Active(g)) => disasterId[h] # disasterId[g]

\* C21 witness: the session of the first report has a request in flight and
\* is still armed when the session of the second report is armed.
C21_Witness ==
    /\ Active(1) /\ Active(2)
    /\ owner[1] = 1 /\ owner[2] = 2
    /\ InFlight(1) # {}

\* The application with its scheduling: a timer that is armed fires, a
\* request that was sent is settled, and a continuation whose await has
\* settled runs.  Nothing obliges the user to press a button.
FairUI ==
    /\ \A h \in Handles : WF_vars(TickUI(h))
    /\ \A h \in Handles : \A n \in 1..MaxTicks : WF_vars(ServerRespond(h, n))
    /\ \A h \in Handles : \A n \in 1..MaxTicks : WF_vars(Resume(h, n))
    /\ \A k \in 1..MaxHandles : WF_vars(CreateRespond(k))
    /\ \A k \in 1..MaxHandles : WF_vars(SubmitResume(k))

SpecUILive == InitUI /\ [][NextUI]_vars /\ FairUI

\* C22: whenever a poll session started by handleSubmit has ended (analyzed
\* snapshot delivered, attempts exhausted or fetch failure), the analyzing
\* flag eventually becomes false.
C22_AnalyzingEventuallyFalse ==
    \A h \in Handles : (owner[h] > 0 /\ Ended(h)) ~> ~analyzing

\* The create request of the report submitted successfully last (0: none).
LastStarted ==
    IF PostsIn("started") = {} THEN 0
    ELSE CHOOSE k \in PostsIn("started") : \A j \in PostsIn("started") : j <= k

\* C23: analysisResult is null or a snapshot of the report submitted
\* successfully last; the session of an earlier report neither stores its
\* snapshot nor clears the analyzing flag once a newer submit has succeeded.
C23_ResultOfLatestReport ==
    /\ [](analysisResult # Null =>
            /\ LastStarted # 0
            /\ analysisResult.id = posts[LastStarted].id)
    /\ [][\A h \in Handles :
            (log'[h] # log[h] /\ owner[h] # LastStarted) =>
               /\ analysisResult' = analysisResult
               /\ analyzing' = analyzing]_vars

\* C24: once the timer of a session has been released (analyzed snapshot,
\* exhaustion, fetch failure or stop by the caller) the session sends no new
\* request and is never armed again; releasing it once more changes nothing.
C24_ReleasedStaysReleased ==
    [][\A h \in Handles :
          interval[h] = "cleared" =>
             /\ interval'[h] = "cleared"
             /\ attempts'[h] = attempts[h]
             /\ Len(fetch'[h]) = Len(fetch[h])
             /\ \A p \in 1..Len(log'[h]) :
                   (p > Len(log[h])) => log'[h][p].ev # "getDisaster"]_vars

\* C24 witness: the timer was released by the poller, released again by the
\* caller, and the session is over although a further tick was still allowed.
C24_Witness ==
    /\ \E p \in At(1, "stop") : log[1][p].data = "cleared"
    /\ Ended(1)
    /\ attempts[1] < maxAttempts[1]
    /\ attempts[1] < MaxTicks

\* The create requests whose handler is suspended at its await.
Pending == {k \in 1..Len(posts) : posts[k].st \in {"sent", "ok", "error"}}

\* C25: submitting is true exactly while a create request of handleSubmit is
\* outstanding: it is set as the request goes out, it is false once the
\* handler has finished (success or failure), a rejected submit never sets
\* it, and at most one create request is outstanding at any time.
C25_SubmittingWhileCreateInFlight ==
    /\ [](submitting <=> Pending # {})
    /\ [](Cardinality(Pending) <= 1)
    /\ [][Len(posts') = Len(posts) + 1 => (~submitting /\ submitting')]_vars
    /\ [][(HandleSubmit /\ LocationMissing(draft)) => ~submitting']_vars
    /\ [][\A k \in Pending : k \notin Pending' => ~submitting']_vars

\* C25 witness: a first submit failed and its handler has finished, a second
\* create request is outstanding and the flag is set again.
C25_Witness ==
    /\ Len(posts) = 2
    /\ posts[1].st = "failed"
    /\ posts[2].st = "sent"
    /\ submitting

\* C26: a failed create request leaves the draft, the view and analyzing as
\* they are; a successful one empties every field of the draft, shows the
\* analysis panel and sets analyzing; and every submit that passes validation
\* clears analysisResult as its request goes out.
C26_SubmitOutcomeFrame ==
    /\ [][\A k \in 1..Len(posts) :
            (posts[k].st = "error" /\ posts'[k].st = "failed") =>
               /\ draft' = draft
               /\ view' = view
               /\ analyzing' = analyzing]_vars
    /\ [][\A k \in 1..Len(posts) :
            (posts[k].st = "ok" /\ posts'[k].st = "started") =>
               /\ \A f \in Fields : draft'[f] = ""
               /\ view' = "analysis"
               /\ analyzing' = TRUE]_vars
    /\ [][Len(posts') = Len(posts) + 1 => analysisResult' = Null]_vars

\* C26 witness: the first report's session had delivered a snapshot when the
\* second submit cleared it; the second create request failed, and the draft
\* is still in the form.
C26_Witness ==
    /\ Len(posts) = 2
    /\ posts[1].st = "started"
    /\ posts[2].st = "failed"
    /\ NumUpdates(1) > 0
    /\ analysisResult = Null
    /\ draft # EmptyDraft
    /\ view = "new"

\* C27: a submit rejected for its empty location changes submitError and
\* nothing else: draft, view, submitting, analyzing and analysisResult stay,
\* no create request goes out and no poll session is started.
C27_RejectChangesOnlySubmitError ==
    [][(HandleSubmit /\ draft["location"] = "") =>
          /\ submitError' = MissingLocation
          /\ UNCHANGED <<draft, view, saved, submitting, analyzing, analysisResult>>
          /\ UNCHANGED posts
          /\ UNCHANGED <<server, pollVars>>]_vars

\* C27 witness: with the snapshot of an earlier report on display and its
\* analysis still running, Submit was pressed on an empty form.
C27_Witness ==
    /\ submitError = MissingLocation
    /\ draft = EmptyDraft
    /\ view = "new"
    /\ analysisResult # Null
    /\ analyzing
    /\ ~submitting

\* One session of a caller that passes a maxAttempts of at most 1, zero and
\* negative values included.
InitLowMax ==
    /\ \E s \in StatusSet :
          server = [i \in Ids |-> IF i = 1 THEN s ELSE "none"]
    /\ \E m \in (1 - MaxMaxAttempts)..1 :
          pollDisasterAnalysis(1, 1, m)
    /\ AppInit

SpecLowMax == InitLowMax /\ [][Next]_vars

\* C28: with maxAttempts <= 1 (zero and negative included) and a first fetch
\* that succeeds, a session performs exactly one tick: one request, one
\* snapshot delivered, then the timer is released; the first request goes
\* out before any exhaustion check.
C28_LowMaxMeansOneTick ==
    \A h \in Handles :
        (Started(h) /\ maxAttempts[h] <= 1) =>
            /\ (attempts[h] = 0 /\ ~CallerStopped(h)) => interval[h] = "armed"
            /\ UpdatesOf(h, 1) # {} =>
                  /\ attempts[h] = 1
                  /\ NumUpdates(h) = 1
                  /\ interval[h] = "cleared"

\* The continuation after the await when the caller's onUpdate throws: the
\* call was made, the exception lands in the catch handler of the callback.
\* (The callback handleSubmit passes only calls state setters.)
ResumeThrows(h, n) ==
    /\ n \in 1..Len(fetch[h])
    /\ fetch[h][n] \in StatusSet
    /\ owner[h] = 0
    /\ fetch' = [fetch EXCEPT ![h][n] = "resumed"]
    /\ log' = [log EXCEPT ![h] =
          Append(Append(@, Event("onUpdate", n, fetch[h][n])),
                 Event("error", n, "onUpdate"))]
    /\ interval' = [interval EXCEPT ![h] = clearInterval(@)]
    /\ UNCHANGED <<server, disasterId, maxAttempts, attempts, owner>>
    /\ UNCHANGED uiVars

NextThrows ==
    \/ Next
    \/ \E h \in Handles : \E n \in 1..MaxTicks : ResumeThrows(h, n)

\* One session of a caller whose onUpdate may throw.
SpecThrows == Init /\ [][NextThrows]_vars

\* C29: when onUpdate throws on a delivered snapshot the session is halted
\* as by a fetch failure: the timer is released, no later tick occurs and
\* onUpdate is not invoked again, whatever the snapshot's status and the
\* value of the attempt counter.
C29_ThrowHaltsSession ==
    \A h \in Handles : \A p \in At(h, "error") :
        log[h][p].data = "onUpdate" =>
            /\ interval[h] = "cleared"
            /\ After(h, p) \cap TickEffects(h) = {}

\* The New Incident form used without the menu: the panel is opened with
\* "+ New Incident" or "Report Another" and left with Close or by a submit
\* that succeeds, so that a draft found on the country panel has been
\* through Close.
NextForm ==
    \/ \E f \in Fields : \E v \in FieldValues(f) : updateDraft(f, v)
    \/ SaveDraft
    \/ Close
    \/ setView("new")
    \/ HandleSubmit
    \/ \E k \in 1..MaxHandles : CreateRespond(k)
    \/ \E k \in 1..MaxHandles : SubmitResume(k)

SpecForm == InitUI /\ [][NextForm]_vars

\* C30: Close keeps the draft if and only if saved is true at that moment
\* (Save Draft was pressed and no field edited since); every edit of a field
\* resets saved, and so does every Close, so that a second Close without a
\* new Save Draft discards the draft.
C30_CloseKeepsSavedDraftOnly ==
    /\ [][Close => /\ draft' = (IF saved THEN draft ELSE EmptyDraft)
                   /\ ~saved']_vars
    /\ [][(\E f \in Fields : \E v \in FieldValues(f) : updateDraft(f, v))
             => ~saved']_vars
    /\ [][(~saved /\ saved') => SaveDraft]_vars

\* C30 witness: a draft that is not empty was closed after Save Draft: it is
\* kept, the form is closed and saved is false again.
C30_Witness ==
    /\ view = "country"
    /\ draft # EmptyDraft
    /\ ~saved
====
